---- MODULE Spec2Model ----
(***************************************************************************)
(* conduction-tines: the mirror registry (schemas.MirroredChannel), the    *)
(* delivery ledger (schemas.MirroredMessage) and the fan-out engine        *)
(* (modules/mirror.py), as state machines.                                 *)
(*                                                                         *)
(* RegSpec     : the registry's operations on the mirrored_channel table   *)
(*               and on the in-memory destination cache.                   *)
(* Spec        : create fan-outs of one source channel, one after another. *)
(* SpecDisable : Threshold + 1 create fan-outs with auto-disable on.       *)
(* SpecUpdate  : an update or delete fan-out next to a create fan-out and  *)
(*               the removal of a mirror.                                  *)
(***************************************************************************)
EXTENDS Integers, Sequences, FiniteSets, TLC

\* ------------------------------------------------------------------ bounds

\* Largest error count an initial row carries in RegSpec.
MaxErr == 2
\* Last value of the wall clock.
MaxTime == 2
\* Operations per behaviour of RegSpec.
MaxOps == 3
\* Longest list the destination cache holds for one source.
MaxCacheLen == 3
\* Create fan-outs per behaviour of Spec.
MaxRuns == 2
\* Sends the transport accepts per behaviour.
MaxOk == 3
\* TimedSemaphore(value, period) of SemSpec, the period in clock ticks.
SemValue == 2
SemPeriod == 2
\* Last tick of the clock of SemSpec.
MaxClock == 4
\* Largest population a server reports in PopSpec.
MaxPop == 2
\* Failed attempts of one progress call that are counted.
MaxTries == 2
\* Status artifacts of one run that are counted.
MaxArtifacts == 2

\* -------------------------------------------------------- program constants

\* mirror.py: max_retries = 2
MaxRetries == 2
\* mirror.py: for _ in range(3), the crosspost attempts of a kernel
CrosspostTries == 3
\* schemas.py: disable_legacy_failing_mirrors(threshold: int = 7)
Threshold == 7

\* ---------------------------------------------------------- program values

\* schemas.py: coalesce(ServerStatistics.population, 10**12), in units the
\* model can order: larger than every recorded population.
BigPop == 1000
\* Channel ids.  Sources and destinations share one id space.
Srcs == {1, 2}
Dests == {1, 2, 3}
\* The sources and destinations RegSpec works on.
RegSrcs == {1, 2}
RegDests == {1, 2}
\* population value of a server with no server_statistics row
NoPop == -1

VARIABLES
  edges,        \* mirrored_channel rows: [Srcs \X Dests -> row]
  dests_cache,  \* MirroredChannel._dests_cache: [Srcs -> [has, list]]
  population,   \* server_statistics.population of a destination's server
  now,          \* the wall clock (dt.datetime.now)
  last,         \* the registry call made last, with what it returned
  nops,         \* number of registry calls made
  ledger,       \* mirrored_message rows
  disable_bad_channels,  \* cfg.disable_bad_channels
  cr,           \* the create fan-out: message_create_repeater_impl
  ud,           \* the update or delete fan-out
  runsLeft,     \* create fan-outs still to come
  okLeft,       \* sends the transport still accepts
  streak,       \* per destination: create fan-outs in a row that ended in failure
  all_srcs_cache,  \* MirroredChannel._all_srcs_cache
  sem,          \* a TimedSemaphore and its callers
  nontext,      \* the destination channels that are not text channels
  status        \* the log channel of the progress reports: "up", "flaky", "down"

regVars == <<edges, dests_cache, population, now, last, nops>>
fanVars == <<ledger, disable_bad_channels, cr, ud, runsLeft, okLeft, streak>>
\* what the registry and the fan-outs leave alone
restVars == <<sem, nontext, status>>
vars == <<edges, dests_cache, population, now, last, nops,
          ledger, disable_bad_channels, cr, ud, runsLeft, okLeft, streak,
          all_srcs_cache, sem, nontext, status>>

\* ------------------------------------------------------------------ helpers

Range(seq) == {seq[i] : i \in 1..Len(seq)}

Count(seq, x) == Cardinality({i \in 1..Len(seq) : seq[i] = x})

\* list.remove(x): drops the first occurrence; the caller checks membership
RemoveFirst(seq, x) ==
  LET i == CHOOSE k \in 1..Len(seq) :
             seq[k] = x /\ \A j \in 1..(k - 1) : seq[j] # x
  IN  [k \in 1..(Len(seq) - 1) |-> IF k < i THEN seq[k] ELSE seq[k + 1]]

\* try: list.remove(x) except ValueError: pass
RemoveIfPresent(seq, x) == IF x \in Range(seq) THEN RemoveFirst(seq, x) ELSE seq

Perms(S) ==
  {f \in [1..Cardinality(S) -> S] : \A i, j \in 1..Cardinality(S) : f[i] = f[j] => i = j}

\* A row of mirrored_channel.  ex = FALSE: the table holds no such row.
\* dis = 0 stands for legacy_disable_for_failure_on_date IS NULL.
NoEdge == [ex |-> FALSE, legacy |-> FALSE, enabled |-> FALSE, err |-> 0, dis |-> 0]

Row(legacy, enabled, err, dis) ==
  [ex |-> TRUE, legacy |-> legacy, enabled |-> enabled, err |-> err, dis |-> dis]

\* defaultdict(list): an absent key reads as [] and the read creates the key
NoEntry == [has |-> FALSE, list |-> <<>>]
Entry(list) == [has |-> TRUE, list |-> list]
CacheList(s) == dests_cache[s].list

NoCall == [op |-> "none", src |-> 0, dest |-> 0, flag |-> FALSE, num |-> 0,
           ret |-> {}, raised |-> FALSE]

Call(op, src, dest, flag, num, ret, raised) ==
  [op |-> op, src |-> src, dest |-> dest, flag |-> flag, num |-> num,
   ret |-> ret, raised |-> raised]

\* ------------------------------------------------------- registry: queries

\* the population column as it is, NULL below every number
raw_population(d) == population[d]

\* coalesce(ServerStatistics.population, 10**12); dest_server_id of a
\* destination channel is the server that owns it
PopKey(d) == IF population[d] = NoPop THEN BigPop ELSE population[d]

\* rows selected by fetch_dests(src, legacy, enabled)
FetchDestsSet(E, s, legacy, enabled) ==
  {d \in Dests : E[<<s, d>>].ex /\ E[<<s, d>>].legacy = legacy
                 /\ E[<<s, d>>].enabled = enabled}

\* fetch_dests: the selected rows in descending order of population; rows
\* with equal population come in an order the database chooses
fetch_dests(E, s) ==
  {f \in Perms(FetchDestsSet(E, s, TRUE, TRUE)) :
     \A i, j \in 1..Len(f) : i < j => PopKey(f[i]) >= PopKey(f[j])}

\* fetch_srcs(dest_id) with its defaults legacy=True, enabled=True
fetch_srcs(E, d) ==
  {s \in Srcs : E[<<s, d>>].ex /\ E[<<s, d>>].legacy /\ E[<<s, d>>].enabled}

\* the lists get_or_fetch_dests(src) can return in this state
get_or_fetch_dests(E, C, s) ==
  IF C[s].has THEN {C[s].list} ELSE fetch_dests(E, s)

\* get_legacy_failing_mirrors(threshold)
get_mirrors_above(E, T) ==
  {e \in Srcs \X Dests : E[e].ex /\ E[e].enabled /\ E[e].legacy /\ E[e].err > T}

\* get_legacy_failing_mirrors(threshold)
get_legacy_failing_mirrors(E, T) ==
  {e \in Srcs \X Dests : E[e].ex /\ E[e].enabled /\ E[e].legacy /\ E[e].err >= T}

\* get_legacy_mirrors_disabled_for_failure(since); a NULL date compares false
get_legacy_mirrors_disabled_for_failure(E, since) ==
  {e \in Srcs \X Dests : E[e].ex /\ ~E[e].enabled /\ E[e].legacy
                         /\ E[e].dis # 0 /\ E[e].dis >= since}

\* WHERE src_id IN (srcs of M) AND dest_id IN (dests of M)
InBoth(M) == {e \in Srcs \X Dests : e[1] \in {m[1] : m \in M} /\ e[2] \in {m[2] : m \in M}}

\* for src_id, dest_id in mirrors: try: cache[src_id].remove(dest_id)
RECURSIVE CacheRemoveAll(_, _)
CacheRemoveAll(C, M) ==
  IF M = {} THEN C
  ELSE LET m == CHOOSE x \in M : TRUE
       IN  CacheRemoveAll(
             [C EXCEPT ![m[1]] = Entry(RemoveIfPresent(C[m[1]].list, m[2]))],
             M \ {m})

\* for src_id, dest_id in mirrors: cache[src_id].append(dest_id)
RECURSIVE CacheAppendAll(_, _)
CacheAppendAll(C, M) ==
  IF M = {} THEN C
  ELSE LET m == CHOOSE x \in M : \A y \in M : x[1] < y[1] \/ (x[1] = y[1] /\ x[2] <= y[2])
       IN  CacheAppendAll(
             [C EXCEPT ![m[1]] = Entry(Append(C[m[1]].list, m[2]))],
             M \ {m})

\* ----------------------------------------------------- registry: operations

\* session.merge(cls(src, dest, server, legacy, enabled)): an existing row
\* keeps legacy_error_rate and the disable date, a new row takes the defaults
add_mirror_row(E, s, d, legacy, enabled) ==
  [E EXCEPT ![<<s, d>>] =
     IF E[<<s, d>>].ex
     THEN [E[<<s, d>>] EXCEPT !.legacy = legacy, !.enabled = enabled]
     ELSE Row(legacy, enabled, 0, 0)]

\* fetch_all_srcs(legacy=True): SELECT src_id WHERE legacy, enabled or not
fetch_all_srcs(E) == {s \in Srcs : \E d \in Dests : E[<<s, d>>].ex /\ E[<<s, d>>].legacy}

\* get_or_fetch_all_srcs(legacy=True): a non-empty cached set is returned as
\* it is, an empty one is replaced by what fetch_all_srcs returns
get_or_fetch_all_srcs(E, A) == IF A # {} THEN A ELSE fetch_all_srcs(E)

\* add_mirror's last statement: a legacy edge adds its source to the set
add_mirror_srcs(A, s, legacy) == IF legacy THEN A \cup {s} ELSE A

add_mirror_cache(C, s, d, legacy, enabled) ==
  IF legacy /\ enabled /\ d \notin Range(C[s].list)
  THEN [C EXCEPT ![s] = Entry(Append(C[s].list, d))]
  ELSE IF legacy /\ enabled THEN [C EXCEPT ![s] = Entry(C[s].list)]
  ELSE C

add_mirror(s, d, legacy, enabled) ==
  /\ nops < MaxOps
  /\ edges' = add_mirror_row(edges, s, d, legacy, enabled)
  /\ dests_cache' = add_mirror_cache(dests_cache, s, d, legacy, enabled)
  /\ all_srcs_cache' = add_mirror_srcs(all_srcs_cache, s, legacy)
  /\ last' = Call("add_mirror", s, d, legacy, 0, {}, FALSE)
  /\ nops' = nops + 1
  /\ UNCHANGED <<population, now, fanVars, restVars>>

\* get_or_fetch_all_srcs() called: the set it returns is the cached one from
\* then on
GetOrFetchAllSrcs ==
  /\ nops < MaxOps
  /\ all_srcs_cache' = get_or_fetch_all_srcs(edges, all_srcs_cache)
  /\ last' = Call("get_or_fetch_all_srcs", 0, 0, TRUE, 0,
                  {<<s, 0>> : s \in get_or_fetch_all_srcs(edges, all_srcs_cache)}, FALSE)
  /\ nops' = nops + 1
  /\ UNCHANGED <<edges, dests_cache, population, now, fanVars, restVars>>

\* get_or_fetch_dests(src) called: a miss stores what fetch_dests returned
GetOrFetchDests(s) ==
  /\ nops < MaxOps
  /\ \E f \in get_or_fetch_dests(edges, dests_cache, s) :
       /\ dests_cache' = [dests_cache EXCEPT ![s] = Entry(f)]
       /\ last' = Call("get_or_fetch_dests", s, 0, FALSE, 0,
                       {<<s, f[i]>> : i \in 1..Len(f)}, FALSE)
  /\ nops' = nops + 1
  /\ UNCHANGED <<edges, population, now, fanVars, all_srcs_cache, restVars>>

\* fetch_dests(src_id), straight from the table
FetchDests(s) ==
  /\ nops < MaxOps
  /\ \E f \in fetch_dests(edges, s) :
       last' = Call("fetch_dests", s, 0, FALSE, 0,
                    {<<i, f[i]>> : i \in 1..Len(f)}, FALSE)
  /\ nops' = nops + 1
  /\ UNCHANGED <<edges, dests_cache, population, now, fanVars, all_srcs_cache, restVars>>

\* ServerStatistics.add_server(id, population=10**12): session.merge
add_server(d, p) ==
  /\ nops < MaxOps
  /\ population' = [population EXCEPT ![d] = p]
  /\ last' = Call("add_server", 0, d, FALSE, p, {}, FALSE)
  /\ nops' = nops + 1
  /\ UNCHANGED <<edges, dests_cache, now, fanVars, all_srcs_cache, restVars>>

\* ServerStatistics.update_population(id, population): UPDATE ... WHERE id
update_population(d, p) ==
  /\ nops < MaxOps
  /\ population' = IF population[d] = NoPop THEN population
                   ELSE [population EXCEPT ![d] = p]
  /\ last' = Call("update_population", 0, d, FALSE, p, {}, FALSE)
  /\ nops' = nops + 1
  /\ UNCHANGED <<edges, dests_cache, now, fanVars, all_srcs_cache, restVars>>

reset_dests_cache ==
  /\ nops < MaxOps
  /\ dests_cache' = [s \in Srcs |-> NoEntry]
  /\ last' = Call("reset_dests_cache", 0, 0, FALSE, 0, {}, FALSE)
  /\ nops' = nops + 1
  /\ UNCHANGED <<edges, population, now, fanVars, all_srcs_cache, restVars>>

\* set_legacy: the UPDATE, then the cache.  list.remove raises ValueError on
\* a destination the list does not hold: the session rolls the UPDATE back,
\* the entry the read created stays
set_legacy_raises(C, s, d, legacy) == ~legacy /\ d \notin Range(C[s].list)

set_legacy_row(E, s, d, legacy) ==
  IF E[<<s, d>>].ex THEN [E EXCEPT ![<<s, d>>].legacy = legacy] ELSE E

set_legacy_cache(C, s, d, legacy) ==
  IF legacy THEN [C EXCEPT ![s] = Entry(Append(C[s].list, d))]
  ELSE [C EXCEPT ![s] = Entry(RemoveIfPresent(C[s].list, d))]

\* legacy: the source is added; not legacy: the source is removed
set_legacy_srcs(A, s, legacy) == IF legacy THEN A \cup {s} ELSE A \ {s}

set_legacy(s, d, legacy) ==
  /\ nops < MaxOps
  /\ legacy => Len(dests_cache[s].list) < MaxCacheLen
  /\ edges' = IF set_legacy_raises(dests_cache, s, d, legacy) THEN edges
              ELSE set_legacy_row(edges, s, d, legacy)
  /\ dests_cache' = set_legacy_cache(dests_cache, s, d, legacy)
  /\ all_srcs_cache' = IF set_legacy_raises(dests_cache, s, d, legacy)
                       THEN all_srcs_cache
                       ELSE set_legacy_srcs(all_srcs_cache, s, legacy)
  /\ last' = Call("set_legacy", s, d, legacy, 0, {},
                  set_legacy_raises(dests_cache, s, d, legacy))
  /\ nops' = nops + 1
  /\ UNCHANGED <<population, now, fanVars, restVars>>

\* remove_mirror: UPDATE ... WHERE src, dest, enabled SET enabled = False
remove_mirror_row(E, s, d) ==
  IF E[<<s, d>>].ex /\ E[<<s, d>>].enabled
  THEN [E EXCEPT ![<<s, d>>].enabled = FALSE] ELSE E

remove_mirror_cache(C, s, d) ==
  [C EXCEPT ![s] = Entry(RemoveIfPresent(C[s].list, d))]

remove_mirror(s, d) ==
  /\ nops < MaxOps
  /\ edges' = remove_mirror_row(edges, s, d)
  /\ dests_cache' = remove_mirror_cache(dests_cache, s, d)
  /\ last' = Call("remove_mirror", s, d, FALSE, 0, {}, FALSE)
  /\ nops' = nops + 1
  /\ UNCHANGED <<population, now, fanVars, all_srcs_cache, restVars>>

\* remove_all_mirrors(dest)
remove_all_mirrors_rows(E, d) ==
  [e \in Srcs \X Dests |->
     IF e[2] = d /\ E[e].ex /\ E[e].enabled THEN [E[e] EXCEPT !.enabled = FALSE]
     ELSE E[e]]

remove_all_mirrors(d) ==
  /\ nops < MaxOps
  /\ edges' = remove_all_mirrors_rows(edges, d)
  /\ dests_cache' = CacheRemoveAll(dests_cache, {<<s, d>> : s \in fetch_srcs(edges, d)})
  /\ last' = Call("remove_all_mirrors", 0, d, FALSE, 0, {}, FALSE)
  /\ nops' = nops + 1
  /\ UNCHANGED <<population, now, fanVars, all_srcs_cache, restVars>>

\* disable_legacy_failing_mirrors(threshold)
disable_rows(E, T, t) ==
  LET M == get_legacy_failing_mirrors(E, T)
  IN  [e \in Srcs \X Dests |->
         IF e \in InBoth(M) /\ E[e].ex
         THEN [E[e] EXCEPT !.enabled = FALSE, !.dis = t] ELSE E[e]]

\* a disable pass that leaves the cache alone
cache_kept(C, E, T) == C

disable_cache(C, E, T) == CacheRemoveAll(C, get_legacy_failing_mirrors(E, T))

disable_legacy_failing_mirrors(T) ==
  /\ nops < MaxOps
  /\ edges' = disable_rows(edges, T, now)
  /\ dests_cache' = disable_cache(dests_cache, edges, T)
  /\ last' = Call("disable_legacy_failing_mirrors", 0, 0, FALSE, T,
                  get_legacy_failing_mirrors(edges, T), FALSE)
  /\ nops' = nops + 1
  /\ UNCHANGED <<population, now, fanVars, all_srcs_cache, restVars>>

\* undo_auto_disable_for_failure(since)
undo_rows(E, since) ==
  LET M == get_legacy_mirrors_disabled_for_failure(E, since)
  IN  [e \in Srcs \X Dests |->
         IF e \in InBoth(M) /\ E[e].ex
         THEN [E[e] EXCEPT !.enabled = TRUE, !.err = 0] ELSE E[e]]

undo_cache(C, E, since) ==
  CacheAppendAll(C, get_legacy_mirrors_disabled_for_failure(E, since))

undo_auto_disable_for_failure(since) ==
  /\ nops < MaxOps
  /\ \A s \in Srcs :
       Len(dests_cache[s].list)
         + Cardinality({e \in get_legacy_mirrors_disabled_for_failure(edges, since) :
                          e[1] = s}) <= MaxCacheLen
  /\ edges' = undo_rows(edges, since)
  /\ dests_cache' = undo_cache(dests_cache, edges, since)
  /\ all_srcs_cache' = all_srcs_cache \cup
       {e[1] : e \in get_legacy_mirrors_disabled_for_failure(edges, since)}
  /\ last' = Call("undo_auto_disable_for_failure", 0, 0, FALSE, since,
                  get_legacy_mirrors_disabled_for_failure(edges, since), FALSE)
  /\ nops' = nops + 1
  /\ UNCHANGED <<population, now, fanVars, restVars>>

\* time passes
Tick ==
  /\ now < MaxTime
  /\ now' = now + 1
  /\ UNCHANGED <<edges, dests_cache, population, last, nops, fanVars, all_srcs_cache, restVars>>

\* --------------------------------------------------------- TimedSemaphore

\* one caller more than there are slots
Callers == 1..(SemValue + 1)

\* value: asyncio.Semaphore._value.  st, done: where each caller is and when
\* its protected operation completed.  clock, starts (the start times of the
\* protected operations, those of the last period) and rel (the completion
\* and release times of the release made last) are history.
IdleSem ==
  [value |-> SemValue, clock |-> 0,
   st |-> [c \in Callers |-> "idle"], done |-> [c \in Callers |-> 0],
   starts |-> <<>>, rel |-> <<>>]

\* a release that does not sleep
release_at_once(done, period) == done

\* release(): await aio.sleep(self.period) returns no sooner than this
release_due(done, period) == done + period

\* __aenter__: acquire() returns when a slot is free; the operation starts
SemAcquire(c) ==
  /\ sem.st[c] = "idle"
  /\ sem.value > 0
  /\ sem' = [sem EXCEPT !.value = sem.value - 1, !.st[c] = "holding",
                        !.starts = Append(sem.starts, sem.clock)]
  /\ UNCHANGED <<regVars, fanVars, all_srcs_cache, nontext, status>>

\* the protected operation completes, normally or with an exception;
\* __aexit__ awaits release(), which sleeps first
SemExit(c, raised) ==
  /\ sem.st[c] = "holding"
  /\ sem' = [sem EXCEPT !.st[c] = IF raised THEN "raising" ELSE "releasing",
                        !.done[c] = sem.clock]
  /\ UNCHANGED <<regVars, fanVars, all_srcs_cache, nontext, status>>

\* the sleep is over: super().release(), and __aexit__ returns
SemRelease(c) ==
  /\ sem.st[c] \in {"releasing", "raising"}
  /\ sem.clock >= release_due(sem.done[c], SemPeriod)
  /\ sem' = [sem EXCEPT !.value = sem.value + 1, !.st[c] = "idle",
                        !.rel = <<sem.done[c], sem.clock>>]
  /\ UNCHANGED <<regVars, fanVars, all_srcs_cache, nontext, status>>

\* a tick of the clock; the starts older than a period are forgotten
SemTick ==
  /\ sem.clock < MaxClock
  /\ sem' = [sem EXCEPT
               !.clock = sem.clock + 1,
               !.starts = SelectSeq(sem.starts,
                                    LAMBDA t : t + SemPeriod > sem.clock + 1)]
  /\ UNCHANGED <<regVars, fanVars, all_srcs_cache, nontext, status>>

\* nothing but the registry and the fan-outs is in use
RestIdle ==
  /\ sem = IdleSem
  /\ nontext = {}
  /\ status = "up"

\* ------------------------------------------------------------ the ledger

\* the id the transport gives the copy of message m it created in channel d
\* on the kernel's attempt number r
MsgId(m, d, r) == 100 * m + 10 * d + r

\* a row as INSERT writes it: creation_datetime takes its default, the time
\* of the insert
LedgerRow(dest_msg, dest_channel, source_msg, source_channel) ==
  [dest_msg |-> dest_msg, dest_channel |-> dest_channel,
   source_msg |-> source_msg, source_channel |-> source_channel,
   created |-> now]

\* a column left without a value
Null == 0

\* the row INSERT writes when it is given no values: every column NULL but
\* the generated key and the creation date
DefaultRow == LedgerRow(Null, Null, Null, Null)

\* add_msgs_in_batch: one INSERT ... VALUES of zip(dest_msgs, dest_channels).
\* The ledgers it can leave: with no pair to insert, insert().values([]) is
\* an INSERT without values, which the database refuses (the exception ends
\* in the list gather returns) or answers with a row of defaults.
add_msgs_in_batch(L, rows) ==
  IF rows = {} THEN {L, L \cup {DefaultRow}} ELSE {L \cup rows}

\* a prune that takes the rows at the cut-off as well
prune_through(L, t, age) == {r \in L : ~(t - age >= r.created)}

\* DELETE ... WHERE now - age > creation_datetime: the rows that stay
prune_rows(L, t, age) == {r \in L : ~(t - age > r.created)}

\* MirroredMessage.prune(age)
prune(age) ==
  /\ nops < MaxOps
  /\ ledger' = prune_rows(ledger, now, age)
  /\ last' = Call("prune", 0, 0, FALSE, age, {}, FALSE)
  /\ nops' = nops + 1
  /\ UNCHANGED <<edges, dests_cache, population, now, disable_bad_channels, cr, ud,
                 runsLeft, okLeft, streak, all_srcs_cache, restVars>>

\* MirroredMessage.add_msg(dest_msg, dest_channel, source_msg, source_channel);
\* dest_msg is the primary key
add_msg(dest_msg, dest_channel, source_msg, source_channel) ==
  /\ nops < MaxOps
  /\ \A r \in ledger : r.dest_msg # dest_msg
  /\ ledger' = ledger \cup {LedgerRow(dest_msg, dest_channel, source_msg, source_channel)}
  /\ last' = Call("add_msg", source_channel, dest_channel, FALSE, dest_msg, {}, FALSE)
  /\ nops' = nops + 1
  /\ UNCHANGED <<edges, dests_cache, population, now, disable_bad_channels, cr, ud,
                 runsLeft, okLeft, streak, all_srcs_cache, restVars>>

\* a lookup without its WHERE clause
every_row(L, m) == L

\* get_dest_msgs_and_channels(source_msg)
get_dest_msgs_and_channels(L, m) == {r \in L : r.source_msg = m}

\* ------------------------------------------------ registry: health counters

\* a failure batch without its dest_id filter
log_failure_for_source(E, s, ds) ==
  [e \in Srcs \X Dests |->
     IF e[1] = s /\ E[e].ex /\ E[e].enabled /\ E[e].legacy
     THEN [E[e] EXCEPT !.err = E[e].err + 1] ELSE E[e]]

\* a batch that writes nothing
log_nothing(E, s, ds) == E

\* log_legacy_mirror_failure_in_batch(src, dest_ids)
log_legacy_mirror_failure_in_batch(E, s, ds) ==
  [e \in Srcs \X Dests |->
     IF e[1] = s /\ e[2] \in ds /\ E[e].ex /\ E[e].enabled /\ E[e].legacy
     THEN [E[e] EXCEPT !.err = E[e].err + 1] ELSE E[e]]

\* log_legacy_mirror_success_in_batch(src, dest_ids)
log_legacy_mirror_success_in_batch(E, s, ds) ==
  [e \in Srcs \X Dests |->
     IF e[1] = s /\ e[2] \in ds /\ E[e].ex /\ E[e].enabled /\ E[e].legacy
     THEN [E[e] EXCEPT !.err = 0] ELSE E[e]]

\* --------------------------------------------------- the create fan-out

\* the channel the fan-outs of the model are for
SrcCh == 1

\* A kernel task of the run, per destination.
\*   none: no task     running: task created, not finished (it sleeps its
\*   delay, fetches the channel, sends)     ok / err: finished with a
\*   KernelWorkDone without / with an exception, not collected yet
\*   exc: finished by raising     retry: collected into to_retry
\*   success / failed: collected
NoKernel == [st |-> "none", retries |-> 0]
Kernel(st, retries) == [st |-> st, retries |-> retries]

NoReport == [sent |-> FALSE, completed |-> 0, retrying |-> 0, failed |-> 0,
             remaining |-> 0, is_completed |-> FALSE]
Report(completed, retrying, failed, remaining, is_completed) ==
  [sent |-> TRUE, completed |-> completed, retrying |-> retrying, failed |-> failed,
   remaining |-> remaining, is_completed |-> is_completed]

\* fault is the call that raised in the latest attempt of each kernel.
\* sends counts the sends that went through to each destination; crossposts
\* holds the answers to the crosspost calls of its latest kernel, in order.
\* observed tells how the handler saw that the message is crossposted:
\* "flag" when it fetched the message again, "event" in bot.wait_for.
\* log_message is the status artifact the run holds (0: None, n: the n-th it
\* created), artifacts the number of artifacts it has created, counted up to
\* MaxArtifacts, tries the failed attempts of the progress call it is in,
\* counted up to MaxTries
IdleRun ==
  [pc |-> "idle", msg |-> 0, mirrors |-> {}, kern |-> [d \in Dests |-> NoKernel],
   pending |-> {}, report |-> NoReport, disabled |-> {},
   err0 |-> [d \in Dests |-> 0], log_message |-> 0, artifacts |-> 0, tries |-> 0,
   error_shown |-> FALSE,
   fault |-> [d \in Dests |-> "none"], observed |-> "none",
   sends |-> [d \in Dests |-> 0], crossposts |-> [d \in Dests |-> <<>>]]

\* what an attempt of log_mirror_progress_to_discord can do: the log channel
\* answers ("up"), answers or fails from call to call ("flaky"), or fails
\* every call ("down")
StatusOutcomes ==
  IF status = "up" THEN {TRUE} ELSE IF status = "down" THEN {FALSE} ELSE BOOLEAN

\* max_tries = 1 if existing_message and not is_completed, else -1: the first
\* message, the completion message and any message sent without an existing
\* one are tried until they go through
retry_forever(log_message, is_completed) == ~(log_message # 0 /\ ~is_completed)

\* whether the embed a progress call writes shows the error state (the error
\* colour, and "with errors" in the footer of a completion report): an embed
\* that is created has the default colour and a footer without errors, an
\* embed that is edited gets the error colour if failures > 0 and keeps the
\* colour it had if not
error_state(existing_message, shown, failures) ==
  IF existing_message = 0 THEN FALSE ELSE shown \/ failures > 0

\* log_channel.send(embed): one more artifact, counted up to MaxArtifacts
more_artifacts(n) == IF n < MaxArtifacts THEN n + 1 ELSE n

\* tries += 1, counted up to MaxTries
more_tries(t) == IF t < MaxTries THEN t + 1 ELSE t

\* the partition of the finished tasks (mirror.py, for task in done)
to_retry(k) == {d \in DOMAIN k : k[d].st = "err" /\ k[d].retries < MaxRetries}
failures_to_log(k) == {d \in DOMAIN k : k[d].st = "err" /\ ~(k[d].retries < MaxRetries)}
successes_to_log(k) == {d \in DOMAIN k : k[d].st = "ok"}
\* the finished tasks whose result() raises
raised_in(k) == {d \in DOMAIN k : k[d].st = "exc"}
\* the tasks aio.wait returns as pending
pending_of(k) == {d \in DOMAIN k : k[d].st = "running"}

\* the kernels after the finished tasks are collected
collected(k) ==
  [d \in DOMAIN k |->
     IF d \in to_retry(k) THEN Kernel("retry", k[d].retries)
     ELSE IF d \in failures_to_log(k) THEN Kernel("failed", k[d].retries)
     ELSE IF d \in successes_to_log(k) THEN Kernel("success", k[d].retries)
     ELSE k[d]]

\* a relaunch that passes job.retries on as it is
relaunched_same(k) ==
  [d \in DOMAIN k |->
     IF k[d].st = "retry" THEN Kernel("running", k[d].retries) ELSE k[d]]

\* kernel(job.dest_channel_id, job.retries + 1, delay) for job in to_retry
relaunched(k) ==
  [d \in DOMAIN k |->
     IF k[d].st = "retry" THEN Kernel("running", k[d].retries + 1) ELSE k[d]]

\* the destinations as the registry lists them
with_source(f, ch) == Range(f)

\* mirrors = list(filter(lambda x: x != channel.id, mirrors))
without_source(f, ch) == Range(f) \ {ch}

\* a predicate that accepts the crosspost of any message
confirms_any(m, msg) == TRUE

\* predicate=lambda e: e.message.id == msg.id and e.message.flags and
\* CROSSPOSTED in e.message.flags, for an event that carries the flag
confirms(m, msg) == m = msg

\* the run as it is when its kernels have been started and the first
\* progress report attempted: ms are the destinations left when the source
\* channel is dropped, how tells how the crosspost was observed
started(ms, ok, m, E, how) ==
  [IdleRun EXCEPT
     !.pc = IF ms = {} THEN "blocked" ELSE IF ok THEN "wait" ELSE "first_sleep",
     !.msg = m,
     !.mirrors = ms,
     !.kern = [d \in Dests |-> IF d \in ms THEN Kernel("running", 0) ELSE NoKernel],
     !.report = IF ms = {} \/ ~ok THEN NoReport
                ELSE Report(0, 0, 0, Cardinality(ms), FALSE),
     !.log_message = IF ms = {} \/ ~ok THEN 0 ELSE 1,
     !.artifacts = IF ms = {} \/ ~ok THEN 0 ELSE 1,
     !.tries = IF ms = {} \/ ok THEN 0 ELSE 1,
     !.err0 = [d \in Dests |-> E[<<SrcCh, d>>].err],
     !.observed = how]

\* message_create_repeater_impl up to its loop, for a message that is flagged
\* as crossposted when it is fetched again: the destinations are read
\* (a miss fills the cache), the source channel is dropped, one kernel per
\* destination is started and the first progress report is attempted.  With
\* no destination at all the handler returns; with none left after the
\* source is dropped the first progress report divides by zero, is retried
\* without end, and the handler never returns.  A first report that fails
\* sleeps 5**tries seconds (pc "first_sleep") and is tried again (pc "first").
CreateBegin ==
  /\ cr.pc \in {"idle", "done", "skipped", "timed_out"}
  /\ runsLeft > 0
  /\ runsLeft' = runsLeft - 1
  /\ \E f \in get_or_fetch_dests(edges, dests_cache, SrcCh), ok \in StatusOutcomes :
       /\ dests_cache' = [dests_cache EXCEPT ![SrcCh] = Entry(f)]
       /\ cr' = IF f = <<>>
                THEN [IdleRun EXCEPT !.pc = "skipped", !.msg = runsLeft]
                ELSE started(without_source(f, SrcCh), ok, runsLeft, edges, "flag")
  /\ UNCHANGED <<edges, population, now, last, nops, ledger, disable_bad_channels,
                 ud, okLeft, streak, all_srcs_cache, restVars>>

\* the same handler for a message that is not flagged as crossposted when it
\* is fetched again, with wait_for_crosspost: the destinations are read and
\* the handler waits in bot.wait_for
CreateBeginWait ==
  /\ cr.pc \in {"idle", "done", "skipped", "timed_out"}
  /\ runsLeft > 0
  /\ runsLeft' = runsLeft - 1
  /\ \E f \in get_or_fetch_dests(edges, dests_cache, SrcCh) :
       /\ dests_cache' = [dests_cache EXCEPT ![SrcCh] = Entry(f)]
       /\ cr' = IF f = <<>>
                THEN [IdleRun EXCEPT !.pc = "skipped", !.msg = runsLeft]
                ELSE [IdleRun EXCEPT !.pc = "crosspost_wait", !.msg = runsLeft,
                                     !.mirrors = without_source(f, SrcCh),
                                     !.err0 = [d \in Dests |-> edges[<<SrcCh, d>>].err]]
  /\ UNCHANGED <<edges, population, now, last, nops, ledger, disable_bad_channels,
                 ud, okLeft, streak, all_srcs_cache, restVars>>

\* a MessageUpdateEvent with the CROSSPOSTED flag for message m reaches the
\* waiting handler: if the predicate accepts it the kernels are started
CrosspostEvent(m) ==
  /\ cr.pc = "crosspost_wait"
  /\ \E ok \in StatusOutcomes :
       cr' = IF confirms(m, cr.msg)
             THEN started(cr.mirrors, ok, cr.msg, edges,
                          IF m = cr.msg THEN "event" ELSE "none")
             ELSE cr
  /\ UNCHANGED <<regVars, ledger, disable_bad_channels, ud, runsLeft, okLeft, streak,
                 all_srcs_cache, restVars>>

\* bot.wait_for raises TimeoutError after 12 hours: except aio.TimeoutError:
\* return
CrosspostTimeout ==
  /\ cr.pc = "crosspost_wait"
  /\ cr' = [cr EXCEPT !.pc = "timed_out"]
  /\ UNCHANGED <<regVars, ledger, disable_bad_channels, ud, runsLeft, okLeft, streak,
                 all_srcs_cache, restVars>>

\* the first progress report is attempted again: the artifact is created and
\* the loop is entered, or the attempt fails and another follows the sleep
CreateFirstReport ==
  /\ cr.pc = "first"
  /\ \E ok \in StatusOutcomes :
       cr' = IF ok
             THEN [cr EXCEPT !.pc = "wait",
                             !.report = Report(0, 0, 0, Cardinality(cr.mirrors), FALSE),
                             !.log_message = more_artifacts(cr.artifacts),
                             !.artifacts = more_artifacts(cr.artifacts),
                             !.tries = 0]
             ELSE [cr EXCEPT !.pc = "first_sleep", !.tries = more_tries(cr.tries)]
  /\ UNCHANGED <<regVars, ledger, disable_bad_channels, ud, runsLeft, okLeft, streak,
                 all_srcs_cache, restVars>>

\* await aio.sleep(5**tries) of a progress call returns, the next attempt
\* of the while loop follows
CreateSleep ==
  /\ cr.pc \in {"first_sleep", "report_sleep"}
  /\ cr' = [cr EXCEPT !.pc = IF cr.pc = "first_sleep" THEN "first" ELSE "report"]
  /\ UNCHANGED <<regVars, ledger, disable_bad_channels, ud, runsLeft, okLeft, streak,
                 all_srcs_cache, restVars>>

\* the calls of the create kernel that can raise
CreateFaults == {"fetch_channel", "not_textable", "send", "crosspost"}

\* the attempt got its message into the destination channel
went_through(fault) == fault \in {"none", "crosspost"}

\* a crosspost loop that goes on after a rejection
crosspost_until_ok(outs) ==
  IF \E i \in 1..Len(outs) : outs[i] = "ok"
  THEN SubSeq(outs, 1, CHOOSE i \in 1..Len(outs) :
                         outs[i] = "ok" /\ \A j \in 1..(i - 1) : outs[j] # "ok")
  ELSE outs

\* for _ in range(3): the crosspost calls the loop makes when the calls it
\* could make answer outs: "ok" (else: break), "already" (BadRequestError
\* "This message has already been crossposted": break) or "error" (any other
\* exception: sleep and go on)
crosspost_calls(outs) ==
  IF \E i \in 1..Len(outs) : outs[i] # "error"
  THEN SubSeq(outs, 1, CHOOSE i \in 1..Len(outs) :
                         outs[i] # "error" /\ \A j \in 1..(i - 1) : outs[j] = "error")
  ELSE outs

\* a kernel that returns the exception of a crosspost as its outcome
create_kernel_strict(fault) == IF fault = "none" THEN "ok" ELSE "err"

\* a kernel whose crosspost loop lets the exception out
create_kernel_uncaught(fault) ==
  IF fault = "none" THEN "ok" ELSE IF fault = "crosspost" THEN "exc" ELSE "err"

\* the create kernel: fetch_channel, the textable test and the send are in
\* one try whose except Exception returns KernelWorkDone(exception=e); each
\* crosspost attempt has its own try, and after the loop the kernel returns
\* KernelWorkDone(dest_message_id=...)
create_kernel(fault) ==
  IF went_through(fault) THEN "ok" ELSE "err"

\* a kernel task finishes.  For a channel that is not textable the kernel
\* raises ValueError inside its try, before the send.
CreateKernel(d, fault) ==
  /\ cr.pc \in {"first", "first_sleep", "wait", "report", "report_sleep"}
  /\ cr.kern[d].st = "running"
  /\ went_through(fault) => okLeft > 0
  /\ d \in nontext => fault \in {"fetch_channel", "not_textable"}
  /\ fault = "not_textable" => d \in nontext
  /\ okLeft' = IF went_through(fault) THEN okLeft - 1 ELSE okLeft
  /\ cr' = [cr EXCEPT !.kern[d].st = create_kernel(fault), !.fault[d] = fault,
                      !.sends[d] = IF went_through(fault) THEN @ + 1 ELSE @]
  /\ UNCHANGED <<regVars, ledger, disable_bad_channels, ud, runsLeft, streak, all_srcs_cache, restVars>>

\* rows for every task that finished, with or without an exception
attempt_rows(k, m, ch) ==
  {LedgerRow(MsgId(m, d, k[d].retries), d, m, ch) :
     d \in successes_to_log(k) \cup failures_to_log(k) \cup to_retry(k)}

\* a kernel task of a GuildNewsChannel finishes after its send went through:
\* the crosspost loop has made its calls, outs being the answers the three
\* calls would get
CreateKernelNews(d, outs) ==
  /\ cr.pc \in {"first", "first_sleep", "wait", "report", "report_sleep"}
  /\ cr.kern[d].st = "running"
  /\ okLeft > 0
  /\ d \notin nontext
  /\ okLeft' = okLeft - 1
  /\ LET fault == IF \E i \in 1..Len(crosspost_calls(outs)) :
                        crosspost_calls(outs)[i] # "ok"
                  THEN "crosspost" ELSE "none"
     IN  cr' = [cr EXCEPT !.kern[d].st = create_kernel(fault), !.fault[d] = fault,
                          !.sends[d] = @ + 1,
                          !.crossposts[d] = crosspost_calls(outs)]
  /\ UNCHANGED <<regVars, ledger, disable_bad_channels, ud, runsLeft, streak,
                 all_srcs_cache, restVars>>

\* the rows add_msgs_in_batch is given for the successes collected
success_rows(k, m, ch) ==
  {LedgerRow(MsgId(m, d, k[d].retries), d, m, ch) : d \in successes_to_log(k)}

\* aio.wait returns (every task finished, or the 10 s are over): the finished
\* tasks are partitioned and the three batches are written;
\* task.result() of a task that finished by raising raises in the loop, and
\* the handler ends there
CreatePoll ==
  /\ cr.pc = "wait"
  /\ IF raised_in(cr.kern) # {}
     THEN /\ cr' = [cr EXCEPT !.pc = "crashed"]
          /\ UNCHANGED <<edges, ledger, streak>>
     ELSE /\ edges' = log_legacy_mirror_success_in_batch(
                        log_legacy_mirror_failure_in_batch(edges, SrcCh,
                                                           failures_to_log(cr.kern)),
                        SrcCh, successes_to_log(cr.kern))
          /\ ledger' \in add_msgs_in_batch(ledger, success_rows(cr.kern, cr.msg, SrcCh))
          /\ streak' = [d \in Dests |->
                          IF d \in failures_to_log(cr.kern) THEN streak[d] + 1
                          ELSE IF d \in successes_to_log(cr.kern) THEN 0 ELSE streak[d]]
          /\ cr' = [cr EXCEPT !.pc = "report", !.kern = collected(cr.kern),
                              !.pending = pending_of(cr.kern)]
  /\ UNCHANGED <<dests_cache, population, now, last, nops, disable_bad_channels,
                 ud, runsLeft, okLeft, all_srcs_cache, restVars>>

\* the same round when the INSERT of add_msgs_in_batch raises: gather(...,
\* return_exceptions=True) returns the exception in its list, the loop logs
\* it and goes on; the two registry batches have their own sessions
CreatePollStorageError ==
  /\ cr.pc = "wait"
  /\ raised_in(cr.kern) = {}
  /\ successes_to_log(cr.kern) # {}
  /\ edges' = log_legacy_mirror_success_in_batch(
                log_legacy_mirror_failure_in_batch(edges, SrcCh, failures_to_log(cr.kern)),
                SrcCh, successes_to_log(cr.kern))
  /\ streak' = [d \in Dests |->
                  IF d \in failures_to_log(cr.kern) THEN streak[d] + 1
                  ELSE IF d \in successes_to_log(cr.kern) THEN 0 ELSE streak[d]]
  /\ cr' = [cr EXCEPT !.pc = "report", !.kern = collected(cr.kern),
                      !.pending = pending_of(cr.kern)]
  /\ UNCHANGED <<dests_cache, population, now, last, nops, ledger, disable_bad_channels,
                 ud, runsLeft, okLeft, all_srcs_cache, restVars>>

\* log_mirror_progress_to_discord with the counts of this round, then the
\* retries are started and the loop ends when no task is left.  An attempt
\* that goes through edits the artifact the run holds, or creates one if it
\* holds none.  An attempt that fails is followed by a sleep and another
\* attempt if the call retries for ever; if not, the call returns None, which
\* becomes the log_message of the run, and the loop goes on.
CreateReport ==
  /\ cr.pc = "report"
  /\ LET retrying == {d \in Dests : cr.kern[d].st = "retry"}
         succ == {d \in Dests : cr.kern[d].st = "success"}
         fail == {d \in Dests : cr.kern[d].st = "failed"}
         is_completed == cr.pending = {} /\ retrying = {}
     IN  \E ok \in StatusOutcomes :
           cr' = IF ok
                 THEN [cr EXCEPT
                         !.report = Report(Cardinality(succ), Cardinality(retrying),
                                           Cardinality(fail), Cardinality(cr.pending),
                                           is_completed),
                         !.log_message = IF cr.log_message = 0
                                         THEN more_artifacts(cr.artifacts)
                                         ELSE cr.log_message,
                         !.artifacts = IF cr.log_message = 0
                                       THEN more_artifacts(cr.artifacts)
                                       ELSE cr.artifacts,
                         !.error_shown = error_state(cr.log_message, cr.error_shown,
                                                     Cardinality(fail)),
                         !.tries = 0,
                         !.kern = relaunched(cr.kern),
                         !.pc = IF is_completed THEN "after" ELSE "wait"]
                 ELSE IF retry_forever(cr.log_message, is_completed)
                 THEN [cr EXCEPT !.pc = "report_sleep", !.tries = more_tries(cr.tries)]
                 ELSE [cr EXCEPT
                         !.log_message = 0,
                         !.tries = 0,
                         !.kern = relaunched(cr.kern),
                         !.pc = "wait"]
  /\ UNCHANGED <<regVars, ledger, disable_bad_channels, ud, runsLeft, okLeft, streak, all_srcs_cache, restVars>>

\* after the loop: if cfg.disable_bad_channels the disable pass runs; if not,
\* disabled_mirrors is read unbound and the handler raises
CreateDisablePass ==
  /\ cr.pc = "after"
  /\ IF disable_bad_channels
     THEN /\ edges' = disable_rows(edges, Threshold, now)
          /\ dests_cache' = disable_cache(dests_cache, edges, Threshold)
          /\ cr' = [cr EXCEPT !.pc = "done",
                              !.disabled = get_legacy_failing_mirrors(edges, Threshold)]
     ELSE /\ cr' = [cr EXCEPT !.pc = "raised"]
          /\ UNCHANGED <<edges, dests_cache>>
  /\ UNCHANGED <<population, now, last, nops, ledger, disable_bad_channels,
                 ud, runsLeft, okLeft, streak, all_srcs_cache, restVars>>

\* ------------------------------------------- the update and delete fan-outs

\* the messages an update or a delete is for: 1 is the message the create
\* fan-out of SpecUpdate mirrors, 2 was never mirrored
Msgs == {1, 2}

\* kern has one kernel per row the lookup returned.  looked, ledger0 (the
\* ledger the lookup read, or the ledger there was when the run returned
\* without a lookup) and called (a kernel has called the transport for a
\* destination) are history; fault is the call that raised in the latest
\* attempt of each kernel.
IdleUd ==
  [pc |-> "idle", kind |-> "none", msg |-> 0, looked |-> FALSE, ledger0 |-> {},
   kern |-> <<>>, pending |-> {}, report |-> NoReport, called |-> FALSE,
   fault |-> <<>>]

\* announce_jobs = [create_task(kernel(msg_id, channel_id)) for ... in rows]
launched(rows) == [r \in rows |-> Kernel("running", 0)]

\* The registry check.  message_update_repeater_impl makes it itself, for an
\* event and for the manual command alike; message_delete_repeater makes it
\* for an event, the manual delete command calls message_delete_repeater_impl
\* without it.
UdBegin(kind, m, manual) ==
  /\ ud.pc = "idle"
  /\ IF kind = "delete" /\ manual
     THEN /\ ud' = [IdleUd EXCEPT !.pc = "lookup", !.kind = kind, !.msg = m]
          /\ UNCHANGED dests_cache
     ELSE \E f \in get_or_fetch_dests(edges, dests_cache, SrcCh) :
            /\ dests_cache' = [dests_cache EXCEPT ![SrcCh] = Entry(f)]
            /\ ud' = [IdleUd EXCEPT !.pc = IF f = <<>> THEN "returned" ELSE "lookup",
                                    !.kind = kind, !.msg = m,
                                    !.ledger0 = IF f = <<>> THEN ledger ELSE {}]
  /\ UNCHANGED <<edges, population, now, last, nops, ledger, disable_bad_channels,
                 cr, runsLeft, okLeft, streak, all_srcs_cache, restVars>>

\* get_dest_msgs_and_channels(msg.id); no row: return.  The delete fan-out
\* starts its kernels at once, the update fan-out fetches the source message
\* first.
UdLookup ==
  /\ ud.pc = "lookup"
  /\ LET rows == get_dest_msgs_and_channels(ledger, ud.msg)
     IN  ud' = [ud EXCEPT
                  !.looked = TRUE,
                  !.ledger0 = ledger,
                  !.pc = IF rows = {} THEN "returned"
                         ELSE IF ud.kind = "update" THEN "fetch" ELSE "wait",
                  !.kern = IF rows # {} /\ ud.kind = "delete" THEN launched(rows) ELSE <<>>,
                  !.fault = IF rows # {} /\ ud.kind = "delete"
                            THEN [r \in rows |-> "none"] ELSE <<>>,
                  !.report = IF rows # {} /\ ud.kind = "delete"
                             THEN Report(0, 0, 0, Cardinality(rows), FALSE) ELSE NoReport]
  /\ UNCHANGED <<regVars, ledger, disable_bad_channels, cr, runsLeft, okLeft, streak, all_srcs_cache, restVars>>

\* msg = await bot.rest.fetch_message(msg.channel_id, msg.id): the source
\* message is returned, or the call raises and the handler ends there
UdFetch(found) ==
  /\ ud.pc = "fetch"
  /\ LET rows == get_dest_msgs_and_channels(ud.ledger0, ud.msg)
     IN  ud' = IF found
               THEN [ud EXCEPT !.pc = "wait", !.kern = launched(rows),
                               !.fault = [r \in rows |-> "none"],
                               !.report = Report(0, 0, 0, Cardinality(rows), FALSE)]
               ELSE [ud EXCEPT !.pc = "raised"]
  /\ UNCHANGED <<regVars, ledger, disable_bad_channels, cr, runsLeft, okLeft, streak, all_srcs_cache, restVars>>

\* the calls of the update and delete kernels that can raise: the fetch of
\* the copy, and its edit or delete
UdFaults == {"fetch_message", "edit"}

\* the update and delete kernels: both calls are in one try whose except
\* Exception returns KernelWorkDone(exception=e), the else returns the id
ud_kernel(fault) == IF fault = "none" THEN "ok" ELSE "err"

\* a kernel fetches the copy and edits or deletes it, or catches an exception
UdKernel(r, fault) ==
  /\ ud.pc \in {"wait", "report"}
  /\ r \in DOMAIN ud.kern
  /\ ud.kern[r].st = "running"
  /\ ud' = [ud EXCEPT !.kern[r].st = ud_kernel(fault), !.fault[r] = fault,
                      !.called = TRUE]
  /\ UNCHANGED <<regVars, ledger, disable_bad_channels, cr, runsLeft, okLeft, streak, all_srcs_cache, restVars>>

\* a round that forgets the rows of the copies it has dealt with
ud_ledger_pruned(L, k) == L \ successes_to_log(k)

\* the ledger after a round of the update or delete loop: the loop sorts the
\* finished tasks into its three lists and calls no method of MirroredMessage
ud_ledger(L, k) == L

\* aio.wait returns and the finished tasks are partitioned; nothing is
\* written to the registry or the ledger
UdPoll ==
  /\ ud.pc = "wait"
  /\ ud' = IF raised_in(ud.kern) # {}
           THEN [ud EXCEPT !.pc = "crashed"]
           ELSE [ud EXCEPT !.pc = "report", !.kern = collected(ud.kern),
                           !.pending = pending_of(ud.kern)]
  /\ ledger' = IF raised_in(ud.kern) # {} THEN ledger ELSE ud_ledger(ledger, ud.kern)
  /\ UNCHANGED <<regVars, disable_bad_channels, cr, runsLeft, okLeft, streak, all_srcs_cache, restVars>>

\* the progress report, the retries, the end of the loop
UdReport ==
  /\ ud.pc = "report"
  /\ LET retrying == {r \in DOMAIN ud.kern : ud.kern[r].st = "retry"}
         succ == {r \in DOMAIN ud.kern : ud.kern[r].st = "success"}
         fail == {r \in DOMAIN ud.kern : ud.kern[r].st = "failed"}
     IN  ud' = [ud EXCEPT
                  !.report = Report(Cardinality(succ), Cardinality(retrying),
                                    Cardinality(fail), Cardinality(ud.pending),
                                    ud.pending = {} /\ retrying = {}),
                  !.kern = relaunched(ud.kern),
                  !.pc = IF ud.pending = {} /\ retrying = {} THEN "done" ELSE "wait"]
  /\ UNCHANGED <<regVars, ledger, disable_bad_channels, cr, runsLeft, okLeft, streak, all_srcs_cache, restVars>>

FanIdle ==
  /\ ledger = {}
  /\ disable_bad_channels = TRUE
  /\ cr = IdleRun
  /\ ud = IdleUd
  /\ runsLeft = 0
  /\ okLeft = 0
  /\ streak = [d \in Dests |-> 0]

\* ------------------------------------------------------------------ Spec

\* The process has just started: the table holds what earlier runs left, the
\* cache is empty.  Populations differ, so fetch_dests has one order.
CreateInitWith(rows, ds, flags, runs, oks, ledgers, ops) ==
  /\ edges \in [Srcs \X Dests -> rows \cup {NoEdge}]
  /\ \A e \in Srcs \X Dests : (e[1] # SrcCh \/ e[2] \notin ds) => edges[e] = NoEdge
  /\ dests_cache = [s \in Srcs |-> NoEntry]
  /\ population = [d \in Dests |-> d]
  /\ now = 1
  /\ last = NoCall
  /\ nops = ops
  /\ ledger \in ledgers
  /\ disable_bad_channels \in flags
  /\ cr = IdleRun
  /\ ud = IdleUd
  /\ runsLeft = runs
  /\ okLeft = oks
  /\ streak = [d \in Dests |-> 0]
  /\ all_srcs_cache = {}
  /\ RestIdle

Init == CreateInitWith({Row(TRUE, TRUE, 0, 0), Row(TRUE, TRUE, Threshold - 1, 0)},
                       Dests, BOOLEAN, MaxRuns, MaxOk, {{}}, 0)

NextCreate ==
  \/ CreateBegin
  \/ \E d \in Dests, fault \in {"none", "send"} : CreateKernel(d, fault)
  \/ CreatePoll
  \/ CreateReport
  \/ CreateDisablePass

Spec == Init /\ [][NextCreate]_vars

\* seven fan-outs that fail, and one more
InitDisable ==
  CreateInitWith({Row(TRUE, TRUE, 0, 0)}, {2, 3}, {TRUE}, Threshold + 1, 1, {{}}, 0)

SpecDisable == InitDisable /\ [][NextCreate]_vars

\* the rows an earlier create fan-out of message 2 has left
EarlierRows == {LedgerRow(MsgId(2, d, 0), d, 2, SrcCh) : d \in {2, 3}}

\* one create fan-out of message 1, one update or delete fan-out of message 1
\* or 2 that may start at any moment of it, and an administrator who removes
\* one mirror; the sends of the create fan-out go through
InitUpdate ==
  CreateInitWith({Row(TRUE, TRUE, 0, 0)}, {2}, {TRUE}, 1, MaxOk, {EarlierRows},
                 MaxOps - 1)

NextUpdate ==
  \/ CreateBegin
  \/ \E d \in Dests : CreateKernel(d, "none")
  \/ CreatePoll
  \/ CreateReport
  \/ CreateDisablePass
  \/ \E kind \in {"update", "delete"}, m \in Msgs, manual \in BOOLEAN : UdBegin(kind, m, manual)
  \/ UdLookup
  \/ \E found \in BOOLEAN : UdFetch(found)
  \/ \E r \in DOMAIN ud.kern, fault \in {"none", "edit"} : UdKernel(r, fault)
  \/ UdPoll
  \/ UdReport
  \/ \E d \in Dests : remove_mirror(SrcCh, d)

SpecUpdate == InitUpdate /\ [][NextUpdate]_vars

\* one create fan-out of message 1 to one destination and one update or
\* delete fan-out; every attempt of every kernel can fail
InitRetry ==
  CreateInitWith({Row(TRUE, TRUE, 0, 0)}, {2}, {TRUE}, 1, MaxOk, {EarlierRows}, MaxOps)

NextRetry ==
  \/ CreateBegin
  \/ \E d \in Dests, fault \in {"none", "send"} : CreateKernel(d, fault)
  \/ CreatePoll
  \/ CreateReport
  \/ CreateDisablePass
  \/ \E kind \in {"update", "delete"}, m \in Msgs, manual \in BOOLEAN : UdBegin(kind, m, manual)
  \/ UdLookup
  \/ \E found \in BOOLEAN : UdFetch(found)
  \/ \E r \in DOMAIN ud.kern, fault \in {"none", "edit"} : UdKernel(r, fault)
  \/ UdPoll
  \/ UdReport

SpecRetry == InitRetry /\ [][NextRetry]_vars

\* one create fan-out to at most two destinations, the second of which may
\* be a channel that is not textable, with a log channel that answers,
\* answers from call to call, or answers no call
InitStatus ==
  /\ edges \in [Srcs \X Dests -> {Row(TRUE, TRUE, 0, 0), NoEdge}]
  /\ \A e \in Srcs \X Dests : (e[1] # SrcCh \/ e[2] \notin {2, 3}) => edges[e] = NoEdge
  /\ dests_cache = [s \in Srcs |-> NoEntry]
  /\ population = [d \in Dests |-> d]
  /\ now = 1
  /\ last = NoCall
  /\ nops = 0
  /\ ledger = {}
  /\ disable_bad_channels = TRUE
  /\ cr = IdleRun
  /\ ud = IdleUd
  /\ runsLeft = 1
  /\ okLeft = MaxOk
  /\ streak = [d \in Dests |-> 0]
  /\ all_srcs_cache = {}
  /\ sem = IdleSem
  /\ nontext \in {{}, {3}}
  /\ status \in {"up", "flaky", "down"}

\* what an attempt of a kernel does in SpecStatus
StatusFaults == {"none", "send", "not_textable"}

NextStatus ==
  \/ CreateBegin
  \/ CreateFirstReport
  \/ CreateSleep
  \/ \E d \in Dests, fault \in StatusFaults : CreateKernel(d, fault)
  \/ CreatePoll
  \/ CreateReport
  \/ CreateDisablePass

\* The event loop runs every task that can run: an attempt of a progress
\* call, its sleep, a kernel, the wait of the loop and the disable pass are
\* each taken in the end.  Nothing makes a message arrive.
FairStatus ==
  /\ WF_vars(CreateFirstReport)
  /\ WF_vars(CreateSleep)
  /\ \A d \in Dests : WF_vars(\E fault \in StatusFaults : CreateKernel(d, fault))
  /\ WF_vars(CreatePoll)
  /\ WF_vars(CreateReport)
  /\ WF_vars(CreateDisablePass)

SpecStatus == InitStatus /\ [][NextStatus]_vars /\ FairStatus

\* create fan-outs of messages that are crossposted when they are fetched
\* again or later, or not in 12 hours
InitCrosspost ==
  CreateInitWith({Row(TRUE, TRUE, 0, 0), Row(TRUE, TRUE, 1, 0)}, {2, 3}, {TRUE}, MaxRuns,
                 MaxOk, {{}}, 0)

NextCrosspost ==
  \/ CreateBegin
  \/ CreateBeginWait
  \/ \E m \in Msgs : CrosspostEvent(m)
  \/ CrosspostTimeout
  \/ \E d \in Dests, fault \in {"none", "send"} : CreateKernel(d, fault)
  \/ CreatePoll
  \/ CreateReport
  \/ CreateDisablePass

SpecCrosspost == InitCrosspost /\ [][NextCrosspost]_vars

\* one create fan-out to at most two destinations over a ledger whose INSERT
\* can raise
InitLedger ==
  CreateInitWith({Row(TRUE, TRUE, 0, 0), Row(TRUE, TRUE, 1, 0)}, {2, 3}, {TRUE}, 1,
                 MaxOk, {{}}, 0)

NextLedger ==
  \/ CreateBegin
  \/ \E d \in Dests, fault \in {"none", "send"} : CreateKernel(d, fault)
  \/ CreatePoll
  \/ CreatePollStorageError
  \/ CreateReport
  \/ CreateDisablePass

SpecLedger == InitLedger /\ [][NextLedger]_vars

\* one create fan-out to at most two destinations that may be news channels
NextNews ==
  \/ CreateBegin
  \/ \E d \in Dests, fault \in {"none", "send"} : CreateKernel(d, fault)
  \/ \E d \in Dests, outs \in [1..CrosspostTries -> {"ok", "already", "error"}] :
       CreateKernelNews(d, outs)
  \/ CreatePoll
  \/ CreateReport
  \/ CreateDisablePass

SpecNews == InitLedger /\ [][NextNews]_vars

\* one create fan-out of message 1 to destination 2, which may be a channel
\* that is not textable, and one update or delete fan-out over the one row
\* an earlier fan-out of message 2 left; every call of a kernel can raise
InitKernel ==
  /\ edges = [e \in Srcs \X Dests |-> IF e = <<SrcCh, 2>> THEN Row(TRUE, TRUE, 0, 0)
                                      ELSE NoEdge]
  /\ dests_cache = [s \in Srcs |-> NoEntry]
  /\ population = [d \in Dests |-> d]
  /\ now = 1
  /\ last = NoCall
  /\ nops = 0
  /\ ledger = {LedgerRow(MsgId(2, 2, 0), 2, 2, SrcCh)}
  /\ disable_bad_channels = TRUE
  /\ cr = IdleRun
  /\ ud = IdleUd
  /\ runsLeft = 1
  /\ okLeft = MaxOk
  /\ streak = [d \in Dests |-> 0]
  /\ all_srcs_cache = {}
  /\ sem = IdleSem
  /\ nontext \in {{}, {2}}
  /\ status = "up"

NextKernel ==
  \/ CreateBegin
  \/ \E d \in Dests, fault \in {"none"} \cup CreateFaults : CreateKernel(d, fault)
  \/ CreatePoll
  \/ CreateReport
  \/ CreateDisablePass
  \/ \E kind \in {"update", "delete"}, m \in Msgs, manual \in BOOLEAN : UdBegin(kind, m, manual)
  \/ UdLookup
  \/ \E found \in BOOLEAN : UdFetch(found)
  \/ \E r \in DOMAIN ud.kern, fault \in {"none"} \cup UdFaults : UdKernel(r, fault)
  \/ UdPoll
  \/ UdReport

SpecKernel == InitKernel /\ [][NextKernel]_vars

\* ------------------------------------------------------------ RegSpec

\* The rows a restarted process can find in the table: the table outlives the
\* process, the cache does not.
InitRows ==
  {NoEdge,
   Row(TRUE, TRUE, 0, 0),          \* a mirror in use
   Row(TRUE, TRUE, MaxErr, 0),     \* a mirror that failed MaxErr times
   Row(TRUE, FALSE, 0, 0),         \* removed by remove_mirror
   Row(TRUE, FALSE, MaxErr, 1)}    \* disabled for failure at time 1

RegInit ==
  /\ edges \in [Srcs \X Dests -> InitRows]
  /\ \A e \in Srcs \X Dests : e \notin RegSrcs \X RegDests => edges[e] = NoEdge
  /\ edges[<<2, 1>>] \in {NoEdge, Row(TRUE, TRUE, 0, 0)}
  /\ dests_cache = [s \in Srcs |-> NoEntry]
  /\ population = [d \in Dests |-> NoPop]
  /\ now = 1
  /\ last = NoCall
  /\ nops = 0
  /\ FanIdle
  /\ all_srcs_cache = {}
  /\ RestIdle

RegNext ==
  \/ \E s \in RegSrcs, d \in RegDests, legacy \in BOOLEAN : add_mirror(s, d, legacy, TRUE)
  \/ \E s \in RegSrcs : GetOrFetchDests(s)
  \/ reset_dests_cache
  \/ \E s \in RegSrcs, d \in RegDests, legacy \in BOOLEAN : set_legacy(s, d, legacy)
  \/ \E s \in RegSrcs, d \in RegDests : remove_mirror(s, d)
  \/ \E d \in RegDests : remove_all_mirrors(d)
  \/ \E T \in 1..MaxErr : disable_legacy_failing_mirrors(T)
  \/ \E since \in 1..MaxTime : undo_auto_disable_for_failure(since)
  \/ Tick

RegSpec == RegInit /\ [][RegNext]_vars

\* The set of sources: mirrors that are legacy or not, all enabled, with both
\* caches holding what storage holds, as after the add_mirror calls that
\* registered them; then add_mirror, set_legacy and get_or_fetch_all_srcs.
SrcRows == {NoEdge, Row(TRUE, TRUE, 0, 0), Row(FALSE, TRUE, 0, 0)}

SrcLists == UNION {Perms(D) : D \in SUBSET RegDests}

SrcInit ==
  /\ edges \in [Srcs \X Dests -> SrcRows]
  /\ \A e \in Srcs \X Dests : e \notin RegSrcs \X RegDests => edges[e] = NoEdge
  /\ population = [d \in Dests |-> NoPop]
  /\ dests_cache \in [Srcs -> {Entry(f) : f \in SrcLists}]
  /\ \A s \in Srcs : dests_cache[s].list \in fetch_dests(edges, s)
  /\ all_srcs_cache = fetch_all_srcs(edges)
  /\ now = 1
  /\ last = NoCall
  /\ nops = 0
  /\ FanIdle
  /\ RestIdle

SrcNext ==
  \/ \E s \in RegSrcs, d \in RegDests, legacy \in BOOLEAN : add_mirror(s, d, legacy, TRUE)
  \/ \E s \in RegSrcs, d \in RegDests, legacy \in BOOLEAN : set_legacy(s, d, legacy)
  \/ GetOrFetchAllSrcs

SrcSpec == SrcInit /\ [][SrcNext]_vars

\* the populations a server can have on record
Pops == (1..MaxPop) \cup {BigPop}

PopInit ==
  /\ edges \in [Srcs \X Dests -> {NoEdge, Row(TRUE, TRUE, 0, 0)}]
  /\ \A e \in Srcs \X Dests : e[1] # SrcCh => edges[e] = NoEdge
  /\ dests_cache = [s \in Srcs |-> NoEntry]
  /\ population \in [Dests -> Pops \cup {NoPop}]
  /\ now = 1
  /\ last = NoCall
  /\ nops = 0
  /\ all_srcs_cache = {}
  /\ FanIdle
  /\ RestIdle

PopNext ==
  \/ FetchDests(SrcCh)
  \/ \E d \in Dests, p \in Pops : add_server(d, p)
  \/ \E d \in Dests, p \in Pops : update_population(d, p)

PopSpec == PopInit /\ [][PopNext]_vars

\* the row of the copy of message m in channel d, written at time t
RowAt(m, d, t) == [LedgerRow(MsgId(m, d, 0), d, m, SrcCh) EXCEPT !.created = t]

\* the ledgers of a process that has run until now: per copy no row, or a
\* row written at some time up to now
PruneInit ==
  /\ now \in 1..MaxTime
  /\ \E age \in [Msgs \X {2, 3} -> 0..now] :
       ledger = {RowAt(c[1], c[2], age[c]) : c \in {x \in Msgs \X {2, 3} : age[x] > 0}}
  /\ edges = [e \in Srcs \X Dests |-> NoEdge]
  /\ dests_cache = [s \in Srcs |-> NoEntry]
  /\ population = [d \in Dests |-> NoPop]
  /\ last = NoCall
  /\ nops = 0
  /\ all_srcs_cache = {}
  /\ disable_bad_channels = TRUE
  /\ cr = IdleRun
  /\ ud = IdleUd
  /\ runsLeft = 0
  /\ okLeft = 0
  /\ streak = [d \in Dests |-> 0]
  /\ RestIdle

PruneNext ==
  \/ \E age \in 0..MaxTime : prune(age)
  \/ \E m \in Msgs, d \in {2, 3} : add_msg(MsgId(m, d, 0), d, m, SrcCh)
  \/ Tick

PruneSpec == PruneInit /\ [][PruneNext]_vars

\* the registry at rest, an empty table
RegIdle ==
  /\ edges = [e \in Srcs \X Dests |-> NoEdge]
  /\ dests_cache = [s \in Srcs |-> NoEntry]
  /\ population = [d \in Dests |-> NoPop]
  /\ now = 1
  /\ last = NoCall
  /\ nops = 0
  /\ all_srcs_cache = {}

SemInit == RegIdle /\ FanIdle /\ RestIdle

SemNext ==
  \/ \E c \in Callers : SemAcquire(c)
  \/ \E c \in Callers, raised \in BOOLEAN : SemExit(c, raised)
  \/ \E c \in Callers : SemRelease(c)
  \/ SemTick

SemSpec == SemInit /\ [][SemNext]_vars

\* ------------------------------------------------- claims on the registry

\* the destinations a call of get_or_fetch_dests(s) returns, as a set
GetOrFetchSet(E, C, s) == UNION {Range(f) : f \in get_or_fetch_dests(E, C, s)}

\* the step is a call of the registry operation op
RegCall(op) == nops' = nops + 1 /\ last'.op = op

\* C4: disable_legacy_failing_mirrors(T) disables and stamps exactly the
\* enabled legacy edges with error_count >= T, returns exactly those, and
\* leaves enabled and disabled_at of every other edge as they were.
C4_DisableExactlyFailing ==
  [][RegCall("disable_legacy_failing_mirrors") =>
       LET F == {e \in Srcs \X Dests :
                   edges[e].ex /\ edges[e].enabled /\ edges[e].legacy
                   /\ edges[e].err >= last'.num}
       IN  /\ last'.ret = F
           /\ \A e \in Srcs \X Dests :
                IF e \in F
                THEN ~edges'[e].enabled /\ edges'[e].dis = now
                ELSE /\ edges'[e].enabled = edges[e].enabled
                     /\ edges'[e].dis = edges[e].dis]_vars

\* C5: undo_auto_disable_for_failure(since) re-enables and zeroes exactly the
\* disabled legacy edges with disabled_at >= since, returns exactly those,
\* puts them back in the destination cache, and leaves enabled and
\* error_count of every other edge as they were.
C5_UndoExactlyDisabledSince ==
  [][RegCall("undo_auto_disable_for_failure") =>
       LET U == {e \in Srcs \X Dests :
                   edges[e].ex /\ ~edges[e].enabled /\ edges[e].legacy
                   /\ edges[e].dis # 0 /\ edges[e].dis >= last'.num}
       IN  /\ last'.ret = U
           /\ \A e \in Srcs \X Dests :
                IF e \in U
                THEN /\ edges'[e].enabled /\ edges'[e].err = 0
                     /\ e[2] \in Range(dests_cache'[e[1]].list)
                ELSE /\ edges'[e].enabled = edges[e].enabled
                     /\ edges'[e].err = edges[e].err]_vars

\* C7: in every state get_or_fetch_dests(src) returns the destinations a
\* direct fetch of the enabled legacy edges of src returns, each exactly once.
C7_CacheAgreesWithStorage ==
  \A s \in Srcs : \A f \in get_or_fetch_dests(edges, dests_cache, s) :
    /\ Range(f) = FetchDestsSet(edges, s, TRUE, TRUE)
    /\ \A d \in Range(f) : Count(f, d) = 1

\* C8: right after add_mirror(src, dest, server, legacy=True), fetch_dests(src)
\* and get_or_fetch_dests(src) each hold dest exactly once, fetch_srcs(dest)
\* holds src, and the call did not raise.
C8_AddMirrorIdempotent ==
  (last.op = "add_mirror" /\ last.flag) =>
    /\ ~last.raised
    /\ \A f \in fetch_dests(edges, last.src) : Count(f, last.dest) = 1
    /\ \A f \in get_or_fetch_dests(edges, dests_cache, last.src) : Count(f, last.dest) = 1
    /\ last.src \in fetch_srcs(edges, last.dest)

\* C9: after remove_mirror(src, dest) neither fetch_dests(src) nor
\* get_or_fetch_dests(src) holds dest; on an edge that never existed the call
\* does not raise and changes neither result; after remove_all_mirrors(dest),
\* fetch_srcs(dest) is empty.
C9_RemoveMirror ==
  [][/\ RegCall("remove_mirror") =>
          LET s == last'.src
              d == last'.dest
          IN  /\ ~last'.raised
              /\ d \notin FetchDestsSet(edges', s, TRUE, TRUE)
              /\ d \notin GetOrFetchSet(edges', dests_cache', s)
              /\ ~edges[<<s, d>>].ex =>
                   /\ FetchDestsSet(edges', s, TRUE, TRUE) = FetchDestsSet(edges, s, TRUE, TRUE)
                   /\ GetOrFetchSet(edges', dests_cache', s) = GetOrFetchSet(edges, dests_cache, s)
     /\ RegCall("remove_all_mirrors") => fetch_srcs(edges', last'.dest) = {}]_vars

\* ------------------------------------------------ claims on the fan-outs

\* the create fan-out has left its loop
RunEnded == cr.pc \in {"after", "done", "raised"}

Succeeded == {d \in cr.mirrors : cr.kern[d].st = "success"}
Failed == {d \in cr.mirrors : cr.kern[d].st = "failed"}

\* the ledger rows of the message of the create fan-out
RunRows == {r \in ledger : r.source_msg = cr.msg}

\* C1: when a create fan-out over N destinations ends, K of which failed on
\* every attempt while the other N-K succeeded, the ledger holds exactly N-K
\* rows for the source message, one per succeeding destination, every
\* failing edge has its error count one above what it was when the run
\* began, and every succeeding edge has error count 0.
C1_CreateOutcome ==
  RunEnded =>
    /\ Succeeded \cup Failed = cr.mirrors
    /\ \A d \in Failed : cr.kern[d].retries = MaxRetries
    /\ Cardinality(RunRows) = Cardinality(cr.mirrors) - Cardinality(Failed)
    /\ {r.dest_channel : r \in RunRows} = Succeeded
    /\ \A r \in RunRows : r.source_channel = SrcCh
    /\ \A d \in Failed : edges[<<SrcCh, d>>].err = cr.err0[d] + 1
    /\ \A d \in Succeeded : edges[<<SrcCh, d>>].err = 0

\* two destinations, one succeeded, one failed every attempt and had failed
\* in earlier runs
C1_Witness ==
  /\ RunEnded
  /\ Cardinality(cr.mirrors) = 2
  /\ Succeeded # {}
  /\ \E d \in Failed : cr.err0[d] > 0 /\ cr.kern[d].retries = MaxRetries

\* C2: in a create fan-out, a destination whose attempts have failed so far
\* and are retried keeps the error count it had when the run began; one that
\* succeeds after failed attempts has a ledger row and error count 0 whatever
\* the count was before, and the final progress report counts it among the
\* successes and not among the failures.
C2_RetryThenSuccess ==
  \A d \in cr.mirrors :
    /\ cr.kern[d].st \notin {"success", "failed"}
         => edges[<<SrcCh, d>>].err = cr.err0[d]
    /\ cr.kern[d].st = "success"
         => /\ \E r \in RunRows :
                 r.dest_channel = d /\ r.dest_msg = MsgId(cr.msg, d, cr.kern[d].retries)
            /\ edges[<<SrcCh, d>>].err = 0
            /\ cr.report.is_completed
                 => /\ cr.report.completed = Cardinality(Succeeded)
                    /\ cr.report.failed = Cardinality(Failed)
                    /\ cr.report.retrying = 0

\* a destination failed twice and succeeded on the third try, its edge had
\* failures before, and the final report is out
C2_Witness ==
  /\ cr.report.is_completed
  /\ \E d \in Succeeded : cr.kern[d].retries = MaxRetries /\ cr.err0[d] > 0

NoEnabledAtThreshold ==
  \A e \in Srcs \X Dests :
    ~(edges[e].ex /\ edges[e].legacy /\ edges[e].enabled /\ edges[e].err >= Threshold)

\* C6 as the specification states it: in every state no legacy edge is
\* enabled with an error count at or above the threshold.
C6_AtomicDisable == NoEnabledAtThreshold

\* C6: once the disable pass of a create fan-out has run, no legacy edge is
\* enabled with an error count at or above the threshold, and every edge the
\* pass returned is disabled and carries a disable date.
C6_DisabledAfterPass ==
  cr.pc = "done" =>
    /\ NoEnabledAtThreshold
    /\ \A e \in cr.disabled : ~edges[e].enabled /\ edges[e].dis = now

\* the pass has disabled an edge that reached the threshold in this run
C6_Witness ==
  /\ cr.pc = "done"
  /\ \E d \in Failed : <<SrcCh, d>> \in cr.disabled
                        /\ edges[<<SrcCh, d>>].err = Threshold

UdRows == {r \in ud.ledger0 : r.source_msg = ud.msg}

\* the run is past the point where it starts its kernels
UdSettled == ud.pc \in {"returned", "raised", "wait", "report", "done"}

\* C10 as the specification states it: an update or delete fan-out starts one
\* kernel for each row committed for the message, and none for anything else.
C10_KernelPerRow == UdSettled => DOMAIN ud.kern = UdRows

\* C10: an update or delete fan-out that passes the registry check and, for
\* an update, fetches the source message, starts one kernel for each row
\* committed for the message before its lookup and none for anything else;
\* one that does not, or finds no row, starts no kernel and calls the
\* transport for no destination.
C10_KernelPerRowAfterLookup ==
  /\ ud.pc \in {"wait", "report", "done"}
       => ud.looked /\ UdRows # {} /\ DOMAIN ud.kern = UdRows
  /\ ud.pc \notin {"wait", "report", "done"}
       => DOMAIN ud.kern = {} /\ ~ud.called
  /\ (ud.looked /\ UdRows = {}) => ud.pc = "returned"

\* a fan-out of a message with two rows has run its two kernels, and its
\* lookup read a ledger that held a row of another message as well
C10_Witness ==
  /\ ud.pc = "done"
  /\ ud.called
  /\ Cardinality(DOMAIN ud.kern) = 2
  /\ \E r \in ud.ledger0 : r.source_msg \notin {ud.msg, Null}

\* ------------------------------------------------ claims on TimedSemaphore

Holders == {c \in Callers : sem.st[c] # "idle"}

\* C11: with TimedSemaphore(value=N, period=T) at most N callers hold a slot
\* at any time, a slot given back after an operation that completed, normally
\* or with an exception, is free again no sooner than T after the completion,
\* and no more than N protected operations start in a window shorter than T.
C11_TimedSemaphore ==
  /\ Cardinality(Holders) <= SemValue
  /\ sem.value = SemValue - Cardinality(Holders)
  /\ sem.rel # <<>> => sem.rel[2] >= sem.rel[1] + SemPeriod
  /\ Len(sem.starts) <= SemValue

\* every slot is taken, a caller is kept out, and a slot has been through
\* both kinds of completion and a release before
C11_Witness ==
  /\ sem.value = 0
  /\ \E c \in Callers : sem.st[c] = "idle"
  /\ \E c \in Callers : sem.st[c] = "raising"
  /\ sem.rel # <<>>
  /\ Len(sem.starts) = SemValue

\* ---------------------------------------------------- claims on the order

\* the population a destination is ordered by
EffPop(d) == IF population[d] = NoPop THEN BigPop ELSE population[d]

\* C12: fetch_dests(src) returns the enabled legacy destinations of src, each
\* once, in descending order of the population of their server, a server
\* without a recorded population counting as one of 10^12.
C12_OrderedByPopulation ==
  [][ (last'.op = "fetch_dests" /\ nops' = nops + 1) =>
        LET r == last'.ret
            n == Cardinality(FetchDestsSet(edges, last'.src, TRUE, TRUE))
        IN  /\ {x[2] : x \in r} = FetchDestsSet(edges, last'.src, TRUE, TRUE)
            /\ {x[1] : x \in r} = 1..n
            /\ Cardinality(r) = n
            /\ \A x, y \in r : x[1] < y[1] => EffPop(x[2]) >= EffPop(y[2]) ]_vars

\* after a change of population the fetch returned three destinations, the
\* one without a recorded population first
C12_Witness ==
  /\ last.op = "fetch_dests"
  /\ nops = 2
  /\ Cardinality(last.ret) = 3
  /\ \E x \in last.ret : x[1] = 1 /\ population[x[2]] = NoPop
  /\ \E x, y \in last.ret : x[1] > 1 /\ y[1] > x[1]
                            /\ population[x[2]] > population[y[2]]

\* ---------------------------------------------------- claims on the ledger

\* C13: prune(age) deletes exactly the rows created strictly before now
\* minus age and leaves every row created at or after that time as it is.
C13_PruneStrictlyOlder ==
  [][ (last'.op = "prune" /\ nops' = nops + 1) =>
        /\ ledger' \subseteq ledger
        /\ \A r \in ledger : r \in ledger' <=> r.created >= now - last'.num ]_vars

\* a prune with a cut-off after the first tick has run and has left a row
\* created exactly at the cut-off
C13_Witness ==
  /\ last.op = "prune"
  /\ nops = 1
  /\ now - last.num > 1
  /\ \E r \in ledger : r.created = now - last.num

\* C14: after any sequence of add_mirror and set_legacy calls,
\* get_or_fetch_all_srcs() returns what fetch_all_srcs() returns, the sources
\* that have at least one legacy edge; set_legacy(src, dest, False) does not
\* drop a source that still has another legacy edge.
C14_AllSrcsAgree ==
  get_or_fetch_all_srcs(edges, all_srcs_cache) = fetch_all_srcs(edges)

\* ---------------------------------------------------- claims on the retries

\* one step of one kernel inside a run: a task is started only as the relaunch
\* of a collected failure whose retry count is below max_retries, with the
\* count one higher; a failed attempt is collected as a retry below
\* max_retries and as a terminal failure at max_retries; a terminal failure
\* stays as it is
RetryStep(k, k2) ==
  /\ k.retries <= MaxRetries
  /\ (k2.st = "running" /\ k2 # k) =>
        k.st = "retry" /\ k.retries < MaxRetries /\ k2.retries = k.retries + 1
  /\ (k.st = "retry" /\ k2 # k) => k2 = Kernel("running", k.retries + 1)
  /\ (k.st = "err" /\ k2 # k) =>
        k2 = Kernel(IF k.retries < MaxRetries THEN "retry" ELSE "failed", k.retries)
  /\ k.st = "failed" => k2 = k

\* C15: in a create, update or delete fan-out each kernel is attempted at most
\* 3 times: a failed attempt with retry count below 2 is relaunched with the
\* count increased by exactly 1, a failed attempt with retry count 2 becomes
\* a terminal failure and is never relaunched.
C15_BoundedRetries ==
  [][ /\ cr.pc \notin {"idle", "done", "skipped"} =>
           \A d \in Dests : RetryStep(cr.kern[d], cr'.kern[d])
      /\ DOMAIN ud'.kern = DOMAIN ud.kern =>
           \A r \in DOMAIN ud.kern : RetryStep(ud.kern[r], ud'.kern[r]) ]_vars

\* the create kernel and one update or delete kernel have failed three times
\* each, and another kernel has succeeded on its second attempt
C15_Witness ==
  /\ \E d \in Dests : cr.kern[d] = Kernel("failed", MaxRetries)
  /\ \E r \in DOMAIN ud.kern : ud.kern[r] = Kernel("failed", MaxRetries)
  /\ \E r \in DOMAIN ud.kern : ud.kern[r] = Kernel("success", 1)

\* ------------------------------------------- claims on the end of a fan-out

\* the handler is inside a run
RunStarted ==
  cr.pc \in {"first", "first_sleep", "wait", "report", "report_sleep", "blocked"}

\* every destination of the run is a success or a terminal failure
AllSettled == \A d \in cr.mirrors : cr.kern[d].st \in {"success", "failed"}

\* C16: every fan-out run terminates: when each transport, storage and status
\* call returns, with a result or an error, the loop reaches a state with no
\* pending and no retrying kernel and exits, and every destination is then a
\* success or a terminal failure.
C16_RunTerminates == RunStarted ~> (RunEnded /\ AllSettled)

\* C18: a failure of the status artifact call, transient or persistent, never
\* stops or blocks the fan-out: the outcome of every kernel that has finished
\* is collected by the loop, to be persisted, retried or counted as failed.
C18_StatusNeverBlocks ==
  \A d \in Dests :
    (cr.kern[d].st \in {"ok", "err"}) ~> (cr.kern[d].st \in {"retry", "success", "failed"})

\* C19: a fan-out run creates exactly one status artifact, and every later
\* progress report of the run updates that artifact, also after a progress
\* update that failed.
C19_OneArtifact ==
  cr.pc \in {"wait", "report", "after", "done", "raised"} => cr.artifacts = 1

\* C17: a kernel whose failure is structural, the destination channel not
\* being textable, becomes a terminal failure at once: it is not relaunched
\* and the destination is not tried again in the run.
C17_StructuralIsTerminal ==
  \A d \in nontext : cr.kern[d].st # "retry" /\ cr.kern[d].retries = 0

\* ------------------------------------------ claims on the kernel exceptions

\* the tasks of both fan-outs that have finished and are not collected yet
CreateFinished == {d \in Dests : cr.kern[d].st \in {"ok", "err", "exc"}}
UdFinished == {r \in DOMAIN ud.kern : ud.kern[r].st \in {"ok", "err", "exc"}}

SendsMade == MaxOk - okLeft

\* C21: at every point of a create fan-out the ledger holds at most as many
\* rows for the source message as sends went through for it, also after a
\* round in which no kernel succeeded; a storage error while a batch is
\* written does not end the run and undoes no delivery.
C21_LedgerNeverOvercounts ==
  [][ /\ Cardinality({r \in ledger' : r.source_msg = cr'.msg}) <= MaxOk - okLeft'
      /\ okLeft' <= okLeft
      /\ (cr.pc = "wait" /\ cr'.pc # "wait" /\ successes_to_log(cr.kern) # {}
            /\ ledger' = ledger) =>
           /\ cr'.pc = "report"
           /\ cr'.kern = collected(cr.kern)
           /\ \A d \in successes_to_log(cr.kern) : edges'[<<SrcCh, d>>].err = 0 ]_vars

\* the run has ended after two sends that went through: one is in the
\* ledger, the INSERT of the other raised, and a round without a success
\* has left a row of defaults
C21_Witness ==
  /\ cr.pc = "done"
  /\ SendsMade = 2
  /\ Cardinality(RunRows) = 1
  /\ \E r \in ledger : r.source_msg = Null

\* --------------------------------------- claims on events of one message

\* C22: events of one source message are not serialized: an update or delete
\* event handled while the create fan-out of the message has committed no
\* row finds no row, returns without a kernel and without a report, and is
\* not taken up again, so the copies the create fan-out delivers are never
\* edited or deleted by that event.
C22_UpdateBeforeCommit ==
  [][ /\ (ud.pc = "lookup" /\ ud'.pc # "lookup"
            /\ {r \in ledger : r.source_msg = ud.msg} = {}) =>
           /\ ud'.pc = "returned"
           /\ ud'.kern = <<>>
           /\ ud'.report = NoReport
           /\ ~ud'.called
      /\ ud.pc = "returned" => ud' = ud ]_vars

\* the event of message 1 looked the ledger up before the create fan-out of
\* message 1 wrote its row and has returned; the copy is delivered and
\* recorded, and no kernel has touched it
C22_Witness ==
  /\ ud.pc = "returned"
  /\ ud.looked
  /\ ud.msg = cr.msg
  /\ UdRows = {}
  /\ RunRows # {}
  /\ Succeeded # {}
  /\ ~ud.called

\* the kernels of the create fan-out that have been started
Launched == {d \in Dests : cr.kern[d].st # "none"}

\* C23: with wait_for_crosspost no kernel is started for a message before it
\* is seen as crossposted, by its flag when it is fetched again or by a
\* confirmation event for its id; when no confirmation comes within the
\* timeout the fan-out ends with no send, no ledger row, no counter change
\* and no report.
C23_WaitsForCrosspost ==
  /\ Launched # {} => cr.observed \in {"flag", "event"}
  /\ cr.pc \in {"crosspost_wait", "timed_out"} =>
       /\ Launched = {}
       /\ RunRows = {}
       /\ \A d \in Dests : edges[<<SrcCh, d>>].err = cr.err0[d]
       /\ cr.report = NoReport
       /\ cr.artifacts = 0

\* the second message of the behaviour was confirmed by an event while the
\* handler waited and its copies are delivered; no send went through and no
\* row was written for the message before it
C23_Witness ==
  /\ cr.msg = 1
  /\ cr.observed = "event"
  /\ cr.pc = "done"
  /\ Succeeded # {}
  /\ ledger = RunRows
  /\ okLeft = MaxOk - Cardinality(Succeeded)

\* ------------------------------------- claims on the destinations of a run

\* C24: a create fan-out never sends to the source channel itself: also when
\* the registry lists the source channel among its own destinations, no
\* kernel is started for it and no ledger row is written for it.
C24_NeverToSource ==
  /\ SrcCh \notin cr.mirrors
  /\ cr.kern[SrcCh] = NoKernel
  /\ \A r \in ledger : r.dest_channel # SrcCh

\* the registry lists the source channel as its own enabled legacy
\* destination, and a run has delivered to another destination and ended
C24_Witness ==
  /\ edges[<<SrcCh, SrcCh>>].ex /\ edges[<<SrcCh, SrcCh>>].enabled
  /\ SrcCh \in Range(CacheList(SrcCh))
  /\ cr.pc = "done"
  /\ Succeeded # {}

\* ------------------------------------------------ claims on the crosspost

\* the ledger rows of the run for destination d
RowsFor(d) == {r \in RunRows : r.dest_channel = d}

\* C25: in a create kernel for a news channel a crosspost call rejected as
\* already crossposted ends the crosspost attempts at once, and the kernel is
\* a success: its row is written and the error count of its edge is reset.
C25_AlreadyCrosspostedIsSuccess ==
  \A d \in Dests :
    (\E i \in 1..Len(cr.crossposts[d]) : cr.crossposts[d][i] = "already") =>
      /\ cr.crossposts[d][Len(cr.crossposts[d])] = "already"
      /\ \A i \in 1..(Len(cr.crossposts[d]) - 1) : cr.crossposts[d][i] = "error"
      /\ cr.kern[d].st \in {"ok", "success"}
      /\ cr.kern[d].st = "success" =>
           RowsFor(d) # {} /\ edges[<<SrcCh, d>>].err = 0

\* a crosspost failed once and was then rejected as already crossposted; the
\* kernel is collected as a success on an edge whose error count was 1
C25_Witness ==
  \E d \in Dests :
    /\ cr.crossposts[d] = <<"error", "already">>
    /\ cr.kern[d] = Kernel("success", 0)
    /\ cr.err0[d] = 1
    /\ cr.pc = "done"

\* C30: for a news channel the crosspost call is attempted at most 3 times
\* per kernel, and a crosspost that fails on all 3 attempts does not make
\* the kernel a failure and does not make the message be sent again: the
\* destination is a success with one ledger row and gets one send in the run.
C30_CrosspostBounded ==
  \A d \in Dests :
    /\ Len(cr.crossposts[d]) <= CrosspostTries
    /\ cr.crossposts[d] # <<>> =>
         /\ cr.sends[d] = 1
         /\ cr.kern[d].st \in {"ok", "success"}
         /\ cr.kern[d].st = "success" => Cardinality(RowsFor(d)) = 1

\* the three crosspost calls of a kernel on its second attempt all failed;
\* the run has ended with the destination a success
C30_Witness ==
  \E d \in Dests :
    /\ cr.crossposts[d] = <<"error", "error", "error">>
    /\ cr.kern[d] = Kernel("success", 1)
    /\ cr.pc = "done"

\* the update or delete fan-out has taken this step
UdStep == ud' # ud

\* C26: no step of an update or delete fan-out, whatever its kernels did,
\* changes a row of the registry (error_count, enabled, disabled_at of every
\* edge) or the ledger; a delete that went through leaves its rows in place.
C26_UdLeavesDurableState ==
  [][UdStep => (edges' = edges /\ ledger' = ledger)]_vars

\* a delete fan-out has ended with a copy deleted and one not, after retries,
\* and the rows of both copies are still in the ledger
C26_Witness ==
  /\ ud.pc = "done"
  /\ ud.kind = "delete"
  /\ \E r \in DOMAIN ud.kern : ud.kern[r].st = "success"
  /\ \E r \in DOMAIN ud.kern : ud.kern[r] = Kernel("failed", MaxRetries)
  /\ DOMAIN ud.kern \subseteq ledger

\* C27: a create fan-out reaches its normal end without raising whether the
\* disable flag is on or off; with the flag off the disable pass is not run
\* and no edge is disabled.
C27_CompletesWhateverFlag ==
  /\ cr.pc # "raised"
  /\ ~disable_bad_channels =>
       \A e \in Srcs \X Dests : edges[e].ex => edges[e].enabled /\ edges[e].dis = 0

\* C28: a create fan-out whose list of destinations is empty once the source
\* channel is dropped from it ends as a no-op: it starts no kernel, sends
\* nothing, and is not held in its progress report.
C28_EmptyListIsNoOp ==
  /\ cr.mirrors = {} => \A d \in Dests : cr.kern[d] = NoKernel /\ cr.sends[d] = 0
  /\ cr.pc # "blocked"

\* the last progress report of the create fan-out adds up, and if it is the
\* completion report nothing is retrying or remaining and the artifact shows
\* the error state exactly when a destination has failed
ReportAddsUp ==
  cr.report.sent =>
    /\ cr.report.completed + cr.report.retrying + cr.report.failed + cr.report.remaining
         = Cardinality(cr.mirrors)
    /\ cr.report.is_completed =>
         /\ cr.report.retrying = 0
         /\ cr.report.remaining = 0
         /\ cr.error_shown <=> cr.report.failed > 0

\* C29: in every progress report of a fan-out over N destinations,
\* completed + retrying + failed + remaining = N; completed and failed do not
\* decrease from one report of the run to the next; the completion report
\* has retrying = 0 and remaining = 0, and shows the error state exactly
\* when failed > 0.
C29_ReportCounts ==
  [][/\ ReportAddsUp'
     /\ (cr.report.sent /\ cr'.report.sent /\ cr'.msg = cr.msg) =>
          /\ cr'.report.completed >= cr.report.completed
          /\ cr'.report.failed >= cr.report.failed]_vars

====
